---- MODULE Spec2Model ----
(***************************************************************************)
(* kv-vault/src/client.rs: the Vault client facade (read/write/delete/list *)
(* of secrets under one mount) and the token renewal task bound to the     *)
(* lifetime of the client handles.                                         *)
(*                                                                         *)
(* Specifications:                                                         *)
(*   Spec         the client exactly as written: Client::new calls the     *)
(*                async fn run_renewal at line 57 and drops the returned   *)
(*                future without awaiting it, so the body of run_renewal   *)
(*                (tokio::spawn, lines 114-128) never executes and the     *)
(*                receiver moved into that future is dropped with it.      *)
(*   SpecRenewal  the same client with the future of line 57 driven, so    *)
(*                that the task of lines 114-128 exists.  It is the        *)
(*                specification under which the renewal loop, the select!  *)
(*                and the Drop signal are examined.                        *)
(*   FairRenewal  the task, the handles and the clock of SpecRenewal under *)
(*                weak fairness of the task's poll, for liveness.          *)
(***************************************************************************)
EXTENDS Integers, Sequences, FiniteSets, TLC

\* ---------------------------------------------------------------- bounds
MaxHandles == 3      \* handles of one lineage: the original and its clones
MaxTime == 4         \* clock ticks observed
MaxInterval == 2     \* largest token_refresh_interval, in clock ticks

Paths == {"db/creds", "app/key"}
RenewalPaths == {"db/creds"}     \* the paths used while the renewal task is examined
Values == {"v1", "v2"}
Mounts == {"secret"}
Ttls == {"1h"}
Intervals == 1..MaxInterval

\* ------------------------------------------------------------- constants
NOT_FOUND == 404                 \* the status matched at lines 64 and 97
FaultCodes == {500}              \* service statuses other than success and 404

None == "-"

VARIABLES
    created,                 \* result of Client::new: "no" (not called), "ok", "err"
    namespace,               \* Client.namespace
    token_increment_ttl,     \* Client.token_increment_ttl
    token_refresh_interval,  \* Client.token_refresh_interval
    handles,                 \* number of handles made so far: the original and its clones
    live,                    \* number of handles not dropped yet: the strong count of
                             \* Arc<Sender> (and, with the task's clone, of Arc<VaultClient>)
    signal,                  \* the oneshot channel holds a value
    sendOk,                  \* number of send calls that returned Ok
    reciever,                \* the Receiver: "none", "task" (owned by the task), "dropped", "consumed"
    spawned,                 \* number of renewal tasks spawned (tokio::spawn, line 114)
    task,                    \* the spawned task: "none", "running", "stopped"
    pc,                      \* where the loop future is pending: "start", "tick", "renew", "lookup"
    resp,                    \* answer to the call in flight: "none", "ok", "err";
                             \* "dropped" when the call was dropped unanswered
    next_interval,           \* deadline of the next tick of the tokio Interval
    renewCalls,              \* renew requests started by the task
    token,                   \* the service's token: the increment of the renewal last
                             \* granted, None while none was granted
    now,                     \* the clock
    store,                   \* the service's KV engine under the mount: path -> latest version
    written,                 \* path -> value of the last successful write_secret, None after a delete
    last                     \* the last secret operation: call, service answer, result returned

clientVars == <<created, namespace, token_increment_ttl, token_refresh_interval>>
handleVars == <<handles, live>>
chanVars == <<signal, sendOk, reciever>>
taskVars == <<spawned, task, pc, resp, next_interval, renewCalls, token>>
kvVars == <<store, written, last>>
vars == <<clientVars, handleVars, chanVars, taskVars, now, kvVars>>

\* ------------------------------------------------- the service's KV engine
\* A path holds no version, a deleted latest version, or a live latest
\* version with the JSON document that was stored.
Absent == [state |-> "absent", json |-> None]
Deleted == [state |-> "deleted", json |-> None]
Live(doc) == [state |-> "live", json |-> doc]

\* serde_json at the transport boundary: kv2::set serializes the caller's
\* value into the document, kv2::read deserializes the document.
Json == [v1 |-> "{\"k\":\"v1\"}", v2 |-> "{\"k\":\"v2\"}"]
Serialize(v) == Json[v]
Deserialize(doc) == CHOOSE v \in Values : Json[v] = doc

\* Answers of the transport: success with a body, an API error with a status
\* code, or any other ClientError (connection, TLS, parse).
RespOk(body) == [kind |-> "ok", code |-> 0, body |-> body]
RespApi(c) == [kind |-> "api", code |-> c, body |-> None]
RespOther == [kind |-> "other", code |-> 0, body |-> None]
Faults == {RespApi(c) : c \in FaultCodes} \cup {RespOther}

\* Results of the facade: Ok(value), VaultError::NotFound{namespace, path},
\* or any other VaultError (the From<ClientError> conversion).
Ok(v) == [kind |-> "Ok", namespace |-> None, path |-> None, value |-> v]
NotFound(ns, p) == [kind |-> "NotFound", namespace |-> ns, path |-> p, value |-> None]
TransportError == [kind |-> "Transport", namespace |-> None, path |-> None, value |-> None]

NoOp == [op |-> None, path |-> None, arg |-> None, resp |-> RespOther,
         requests |-> 0, result |-> Ok(None)]

Init ==
    /\ created = "no"
    /\ namespace = None
    /\ token_increment_ttl = None
    /\ token_refresh_interval = 1
    /\ handles = 0
    /\ live = 0
    /\ signal = FALSE
    /\ sendOk = 0
    /\ reciever = "none"
    /\ spawned = 0
    /\ task = "none"
    /\ pc = None
    /\ resp = "none"
    /\ next_interval = 0
    /\ renewCalls = 0
    /\ token = None
    /\ now = 0
    /\ store = [p \in Paths |-> Absent]
    /\ written = [p \in Paths |-> None]
    /\ last = NoOp

\* ------------------------------------------------------------ Client::new

\* run_renewal: an async fn.  Its body runs only when the returned future is
\* polled; the body spawns the task, which takes the receiver.  A future that
\* is dropped unpolled drops the receiver it was given.
run_renewal(polled) ==
    IF polled
    THEN /\ spawned' = spawned + 1
         /\ task' = "running"
         /\ pc' = "start"
         /\ reciever' = "task"
    ELSE /\ spawned' = spawned
         /\ task' = "none"
         /\ pc' = None
         /\ reciever' = "dropped"

\* A constructor that starts the renewal before it validates the settings.
ConstructSpawnsFirst(valid, mount, ttl, interval, polled) ==
    /\ created = "no"
    /\ created' = IF valid THEN "ok" ELSE "err"
    /\ namespace' = mount
    /\ token_increment_ttl' = ttl
    /\ token_refresh_interval' = interval
    /\ handles' = IF valid THEN 1 ELSE 0
    /\ live' = IF valid THEN 1 ELSE 0
    /\ run_renewal(polled)
    /\ UNCHANGED <<signal, sendOk, resp, next_interval, renewCalls, token, now,
                   kvVars>>

\* Client::new.  VaultClient::new fails on invalid settings (the ? of line 47):
\* the channel of line 37 is dropped and nothing else has happened.
Construct(valid, mount, ttl, interval, polled) ==
    /\ created = "no"
    /\ IF valid
       THEN /\ created' = "ok"
            /\ namespace' = mount
            /\ token_increment_ttl' = ttl
            /\ token_refresh_interval' = interval
            /\ handles' = 1
            /\ live' = 1
            /\ run_renewal(polled)
            /\ UNCHANGED <<signal, sendOk, resp, next_interval, renewCalls,
                           token, now, kvVars>>
       ELSE /\ created' = "err"
            /\ UNCHANGED <<namespace, token_increment_ttl, token_refresh_interval,
                           handleVars, chanVars, taskVars, now, kvVars>>

\* Client::new as written: line 57 has no .await.
New ==
    \E valid \in BOOLEAN, mount \in Mounts, ttl \in Ttls, interval \in Intervals :
        Construct(valid, mount, ttl, interval, FALSE)

\* Client::new with the future of line 57 driven.
NewAwaited ==
    \E valid \in BOOLEAN, mount \in Mounts, ttl \in Ttls, interval \in Intervals :
        Construct(valid, mount, ttl, interval, TRUE)

\* ------------------------------------------------------- Clone and Drop

\* A clone that runs the constructor's run_renewal again: a second task.
CloneSpawns ==
    /\ created = "ok"
    /\ live > 0
    /\ handles < MaxHandles
    /\ handles' = handles + 1
    /\ live' = live + 1
    /\ spawned' = spawned + 1
    /\ UNCHANGED <<clientVars, chanVars, task, pc, resp, next_interval,
                   renewCalls, token, now, kvVars>>

\* #[derive(Clone)]: every field is cloned; the two Arcs gain an owner.
Clone ==
    /\ created = "ok"
    /\ live > 0
    /\ handles < MaxHandles
    /\ handles' = handles + 1
    /\ live' = live + 1
    /\ UNCHANGED <<clientVars, chanVars, taskVars, now, kvVars>>

\* A send that takes effect every time it is called while a receiver exists.
sendEveryTime ==
    IF reciever = "task"
    THEN /\ signal' = TRUE
         /\ sendOk' = sendOk + 1
    ELSE UNCHANGED <<signal, sendOk>>

\* Sender::send on the shared sender: Ok when the receiver is alive and no
\* value was sent before, Err otherwise.
send ==
    IF reciever = "task" /\ ~signal
    THEN /\ signal' = TRUE
         /\ sendOk' = sendOk + 1
    ELSE UNCHANGED <<signal, sendOk>>

\* impl Drop for Client: runs for every handle, the result of send is discarded.
Drop ==
    /\ live > 0
    /\ send
    /\ live' = live - 1
    /\ UNCHANGED <<clientVars, handles, reciever, taskVars, now, kvVars>>

\* ------------------------------------------------------ the transport calls
\* What the service can answer to each request.  The service is a faithful
\* store that can also fail: any request may be answered by a fault.

\* kv2::read: the latest version, 404 when there is none or it is deleted.
kv2_read(p) ==
    Faults \cup {IF store[p].state = "live" THEN RespOk(store[p].json)
                                             ELSE RespApi(NOT_FOUND)}

\* kv2::set: a new latest version.
kv2_set(p, v) == Faults \cup {RespOk(Serialize(v))}

\* kv2::delete_latest: the service deletes the latest version.  Where there
\* is none to delete the client code does not decide the answer: Vault's KV
\* engine answers 204 (success) to such a delete, another service may
\* answer 404.
kv2_delete_latest(p) ==
    Faults \cup {RespOk(None)}
           \cup (IF store[p].state = "live" THEN {} ELSE {RespApi(NOT_FOUND)})

\* kv2::list: the keys under the path, 404 when nothing was ever stored there.
kv2_list(p) ==
    Faults \cup {IF store[p].state # "absent" THEN RespOk(p)
                                              ELSE RespApi(NOT_FOUND)}

\* ------------------------------------------------------ the secret operations
\* A match without the guard on the status code: every API error is NotFound.
MatchAnyApiError(r, p, body) ==
    IF r.kind = "api" THEN NotFound(namespace, p)
    ELSE IF r.kind # "ok" THEN TransportError
    ELSE Ok(body)

\* A NotFound built from the namespace twice: the path of the call is lost.
MatchNotFoundNoPath(r, p, body) ==
    IF r.kind = "api" /\ r.code = NOT_FOUND THEN NotFound(namespace, namespace)
    ELSE IF r.kind # "ok" THEN TransportError
    ELSE Ok(body)

\* The match of read_secret (lines 63-72) and of list_secrets (lines 96-105).
MatchNotFound(r, p, body) ==
    IF r.kind = "api" /\ r.code = NOT_FOUND THEN NotFound(namespace, p)
    ELSE IF r.kind # "ok" THEN TransportError
    ELSE Ok(body)

\* A conversion that drops the error: the call reports success.
MapErrSwallowed(r, body) == Ok(body)

\* .map_err(VaultError::from) of write_secret and delete_latest (lines 83, 91).
MapErr(r, body) ==
    IF r.kind # "ok" THEN TransportError ELSE Ok(body)

\* A read that hands back the stored document instead of the value read from it.
ReadResultRaw(r, p) == MatchNotFound(r, p, r.body)

ReadResult(r, p) ==
    MatchNotFound(r, p, IF r.kind = "ok" THEN Deserialize(r.body) ELSE None)

ListResult(r, p) == MatchNotFound(r, p, r.body)

WriteResult(r) == MapErr(r, "metadata")

DeleteResult(r) == MapErr(r, "unit")

\* A transport that is closed by the first handle that is dropped.
inner_closed_by_drop == live = handles

\* inner: Arc<VaultClient> (line 23).  The transport lives as long as one of
\* its owners does: the handles that are not dropped and the renewal task,
\* which holds the clone of line 109.  Drop (lines 132-136) does not touch it.
inner_open == live > 0 \/ task = "running"

\* The answers a request can get through self.inner: those of the service
\* while the transport is open, a client-side error once it is closed.
reach(answers) == IF inner_open THEN answers ELSE {RespOther}

\* A call that sends the request again when the first one has failed.
call_retry(answers) ==
    {[resp |-> r, requests |-> 1] : r \in {a \in answers : a.kind = "ok"}}
      \cup {[resp |-> r, requests |-> 2] : r \in answers}

\* One transport call and its .await (lines 63, 82, 89, 96): one request is
\* sent and its answer, success or failure, is what the call yields.
call(answers) == {[resp |-> r, requests |-> 1] : r \in answers}

\* A read that takes a lock the renewal task holds during its calls.
read_secret_locked(p) ==
    /\ live > 0
    /\ ~(pc \in {"renew", "lookup"})
    /\ \E c \in call(reach(kv2_read(p))) : LET r == c.resp IN
         last' = [op |-> "read", path |-> p, arg |-> None, resp |-> r,
                  requests |-> c.requests,
                  result |-> ReadResult(r, p)]
    /\ UNCHANGED <<clientVars, handleVars, chanVars, taskVars, now, store, written>>

read_secret(p) ==
    /\ live > 0
    /\ \E c \in call(reach(kv2_read(p))) : LET r == c.resp IN
         last' = [op |-> "read", path |-> p, arg |-> None, resp |-> r,
                  requests |-> c.requests,
                  result |-> ReadResult(r, p)]
    /\ UNCHANGED <<clientVars, handleVars, chanVars, taskVars, now, store, written>>

write_secret(p, v) ==
    /\ live > 0
    /\ \E c \in call(reach(kv2_set(p, v))) : LET r == c.resp IN
         /\ last' = [op |-> "write", path |-> p, arg |-> v, resp |-> r,
                     requests |-> c.requests,
                     result |-> WriteResult(r)]
         /\ store' = IF r.kind = "ok" THEN [store EXCEPT ![p] = Live(r.body)] ELSE store
         /\ written' = IF WriteResult(r).kind = "Ok" THEN [written EXCEPT ![p] = v]
                       ELSE written
    /\ UNCHANGED <<clientVars, handleVars, chanVars, taskVars, now>>

delete_latest(p) ==
    /\ live > 0
    /\ \E c \in call(reach(kv2_delete_latest(p))) : LET r == c.resp IN
         /\ last' = [op |-> "delete", path |-> p, arg |-> None, resp |-> r,
                     requests |-> c.requests,
                     result |-> DeleteResult(r)]
         /\ store' = IF r.kind = "ok" /\ store[p].state = "live"
                     THEN [store EXCEPT ![p] = Deleted] ELSE store
         /\ written' = IF r.kind = "ok" THEN [written EXCEPT ![p] = None] ELSE written
    /\ UNCHANGED <<clientVars, handleVars, chanVars, taskVars, now>>

list_secrets(p) ==
    /\ live > 0
    /\ \E c \in call(reach(kv2_list(p))) : LET r == c.resp IN
         last' = [op |-> "list", path |-> p, arg |-> None, resp |-> r,
                  requests |-> c.requests,
                  result |-> ListResult(r, p)]
    /\ UNCHANGED <<clientVars, handleVars, chanVars, taskVars, now, store, written>>

Read(P) == \E p \in P : read_secret(p)
Write(P) == \E p \in P, v \in Values : write_secret(p, v)
Delete(P) == \E p \in P : delete_latest(p)
List(P) == \E p \in P : list_secrets(p)

\* ------------------------------------------------------- the renewal task
\* The loop future of lines 117-122 is a record of where it is pending and
\* of what it has done: [pc, resp, next_interval, renewCalls].
LoopState ==
    [pc |-> pc, resp |-> resp, next_interval |-> next_interval,
     renewCalls |-> renewCalls]

\* next_interval.tick().await, then the call of renew_self up to its first
\* await (line 140: the renew request is started).  A tokio Interval completes
\* a tick when its deadline has passed and moves the deadline on by one
\* period, whatever the time is (MissedTickBehavior::Burst, the default).
tick(s) ==
    IF now >= s.next_interval
    THEN [s EXCEPT !.pc = "renew", !.resp = "none",
                   !.next_interval = @ + token_refresh_interval,
                   !.renewCalls = @ + 1]
    ELSE [s EXCEPT !.pc = "tick", !.resp = "none"]

\* A renew_self that starts the renew again at once when a call has failed.
renew_self_retry(s) ==
    IF s.resp = "none" THEN s
    ELSE IF s.pc = "renew" /\ s.resp = "ok"
    THEN [s EXCEPT !.pc = "lookup", !.resp = "none"]
    ELSE IF s.resp = "err"
    THEN [s EXCEPT !.pc = "renew", !.resp = "none", !.renewCalls = @ + 1]
    ELSE tick(s)

\* A renew_self that looks the token up whatever the renew returned.
renew_self_always_lookup(s) ==
    IF s.resp = "none" THEN s
    ELSE IF s.pc = "renew"
    THEN [s EXCEPT !.pc = "lookup", !.resp = "none"]
    ELSE tick(s)

\* renew_self resumed at its pending await: a successful renew is followed by
\* the lookup request, every other answer ends the call, whose result line
\* 120 discards, and the loop awaits the next tick.
renew_self(s) ==
    IF s.resp = "none" THEN s
    ELSE IF s.pc = "renew" /\ s.resp = "ok"
    THEN [s EXCEPT !.pc = "lookup", !.resp = "none"]
    ELSE tick(s)

\* One poll of the loop future: it runs until it is pending again.  Line 115
\* creates the Interval, whose first deadline is the time of creation.
loop(s) ==
    IF s.pc = "start" THEN tick([s EXCEPT !.next_interval = now])
    ELSE IF s.pc = "tick" THEN tick(s)
    ELSE renew_self(s)

\* The receiver future is ready when a value was sent or when every owner of
\* the sender is gone.
RecvReady == reciever = "task" /\ (signal \/ live = 0)

\* A second branch that logs and does not return: the receiver is consumed
\* and the loop goes on.
StoppedNoReturn(s) ==
    /\ task' = "running"
    /\ reciever' = "consumed"
    /\ pc' = s.pc
    /\ resp' = s.resp
    /\ next_interval' = s.next_interval
    /\ renewCalls' = s.renewCalls

\* The second branch of select! (lines 123-126): the task returns and the
\* loop future is dropped with the call it had in flight.
Stopped(s) ==
    /\ task' = "stopped"
    /\ reciever' = "consumed"
    /\ pc' = None
    /\ resp' = IF s.pc \in {"renew", "lookup"} /\ s.resp = "none"
               THEN "dropped" ELSE "none"
    /\ next_interval' = s.next_interval
    /\ renewCalls' = s.renewCalls

Pending(s) ==
    /\ task' = "running"
    /\ reciever' = reciever
    /\ pc' = s.pc
    /\ resp' = s.resp
    /\ next_interval' = s.next_interval
    /\ renewCalls' = s.renewCalls

\* A select that completes with the receiver only when the receiver is polled
\* first: a loop that was polled first hides the signal.
selectLoopHidesSignal(recvFirst) ==
    IF recvFirst /\ RecvReady THEN Stopped(LoopState)
    ELSE Pending(loop(LoopState))

\* A select whose second branch waits for the call in flight to finish.
selectDrainsCall(recvFirst) ==
    IF pc \in {"renew", "lookup"} /\ resp = "none" THEN Pending(loop(LoopState))
    ELSE IF recvFirst /\ RecvReady THEN Stopped(LoopState)
    ELSE IF RecvReady THEN Stopped(loop(LoopState))
    ELSE Pending(loop(LoopState))

\* One poll of the task: select! (line 116, not biased) polls its two
\* branches in an order chosen at random and completes with the first one
\* that is ready.
select(recvFirst) ==
    IF recvFirst /\ RecvReady THEN Stopped(LoopState)
    ELSE IF RecvReady THEN Stopped(loop(LoopState))
    ELSE Pending(loop(LoopState))

Poll ==
    /\ task = "running"
    /\ \E recvFirst \in BOOLEAN : select(recvFirst)
    /\ UNCHANGED <<clientVars, handleVars, signal, sendOk, spawned, token, now,
                   kvVars>>

\* The increment of the renew request: the ttl cloned at line 112 from
\* token_increment_ttl and passed at lines 120 and 140.
RenewIncrement == token_increment_ttl

\* The service answers the renew or lookup request in flight.  A renew that
\* it grants extends the token by the increment of the request.
Reply ==
    /\ task = "running"
    /\ pc \in {"renew", "lookup"}
    /\ resp = "none"
    /\ \E r \in {"ok", "err"} :
         /\ resp' = r
         /\ token' = IF pc = "renew" /\ r = "ok" THEN RenewIncrement ELSE token
    /\ UNCHANGED <<clientVars, handleVars, chanVars, spawned, task, pc,
                   next_interval, renewCalls, now, kvVars>>

\* ------------------------------------------------------------- the clock
Advance ==
    /\ created = "ok"
    /\ now < MaxTime
    /\ now' = now + 1
    /\ UNCHANGED <<clientVars, handleVars, chanVars, taskVars, kvVars>>

Next ==
    \/ New
    \/ Clone
    \/ Drop
    \/ Read(Paths)
    \/ Write(Paths)
    \/ Delete(Paths)
    \/ List(Paths)
    \/ Advance

Spec == Init /\ [][Next]_vars

NextRenewal ==
    \/ NewAwaited
    \/ Clone
    \/ Drop
    \/ Read(RenewalPaths)
    \/ Write(RenewalPaths)
    \/ Delete(RenewalPaths)
    \/ List(RenewalPaths)
    \/ Advance
    \/ Poll
    \/ Reply

SpecRenewal == Init /\ [][NextRenewal]_vars

\* The handles, the channel, the clock and the task alone.  The secret
\* operations neither read nor change any of these (their UNCHANGED lists),
\* so the behaviours of the task are the same with and without them.
NextTask ==
    \/ NewAwaited
    \/ Clone
    \/ Drop
    \/ Advance
    \/ Poll
    \/ Reply

\* The runtime polls a spawned task that can make progress.
FairRenewal == Init /\ [][NextTask]_vars /\ WF_vars(Poll)

\* ================================================================ claims

\* ---- C1 (as claimed; refuted under SpecRenewal)
\* While at least one handle of the client is alive the cancellation signal
\* has not been fired and the renewal task is still running: the signal is
\* fired by the drop of the last handle only.
C1_SignalOnlyAtLastDrop ==
    (created = "ok" /\ live > 0) => (~signal /\ task = "running")

C3_AttemptsEqualElapsedIntervals ==
    (task = "running" /\ ~RecvReady /\ pc # "start" /\ now < next_interval)
        => renewCalls = now \div token_refresh_interval

\* ---- C4
\* The task is Stopped exactly when it has observed the signal (consumed the
\* receiver); from Stopped it never runs again and starts no renewal
\* attempt, nor keeps a call in flight, whether or not a tick was due.
C4_StoppedIsTerminal ==
    [][ /\ (reciever' = "consumed") <=> (task' = "stopped")
        /\ task = "stopped" =>
              (task' = "stopped" /\ renewCalls' = renewCalls /\ pc' = None) ]_vars

\* C4 witness: the task stopped although a tick was due, after it had
\* made renewal attempts.
C4_Witness ==
    task = "stopped" /\ renewCalls > 0 /\ now >= next_interval

\* ---- C5
\* Once every handle is dropped the task eventually stops, whatever it was
\* doing; and from the moment the receiver is ready a step that starts a
\* renewal attempt starts one only and is the step that stops the task.
C5_NoLeakedTask ==
    /\ (created = "ok" /\ live = 0) ~> (task = "stopped")
    /\ [][ RecvReady /\ renewCalls' # renewCalls =>
              (renewCalls' = renewCalls + 1 /\ task' = "stopped") ]_vars

\* C5 witness: every handle is dropped and the task, which had a call in
\* flight before, is stopped.
C5_Witness ==
    created = "ok" /\ live = 0 /\ task = "stopped" /\ renewCalls > 0

\* ---- C6
\* A renewal attempt has failed: the renew, or the lookup after it, was
\* answered by an error that the task has not consumed yet.
FailedAttempt == task = "running" /\ pc \in {"renew", "lookup"} /\ resp = "err"

\* When the task consumes a failed attempt it keeps running unless it is
\* cancelled, the interval is unchanged, and it starts the next attempt only
\* if the next scheduled tick is due, moving the schedule on by one
\* interval; otherwise it waits for that tick.
C6_FailureKeepsSchedule ==
    [][ FailedAttempt =>
          /\ token_refresh_interval' = token_refresh_interval
          /\ ~RecvReady => task' = "running"
          /\ (task' = "running" /\ <<pc, resp>>' # <<pc, resp>>) =>
                IF now >= next_interval
                THEN /\ pc' = "renew"
                     /\ renewCalls' = renewCalls + 1
                     /\ next_interval' = next_interval + token_refresh_interval
                ELSE /\ pc' = "tick"
                     /\ renewCalls' = renewCalls
                     /\ next_interval' = next_interval ]_vars

\* C6 witness: a second attempt in a row has been answered by an error while
\* the next tick is not due yet.
C6_Witness ==
    FailedAttempt /\ pc = "renew" /\ renewCalls >= 2 /\ now < next_interval

\* ---- C7
\* However many handles are dropped, at most one send has an effect, a
\* handle can always be dropped (the drop does not block), and a drop after
\* the task has stopped changes nothing of the channel or of the task.
C7_OneShotCancel ==
    [][ /\ sendOk' <= 1
        /\ live > 0 => ENABLED Drop
        /\ (live' < live /\ task = "stopped") =>
              (task' = "stopped" /\ signal' = signal /\ sendOk' = sendOk) ]_vars

\* C7 witness: three handles were dropped, one send took effect, the task
\* is stopped.
C7_Witness ==
    handles - live >= 2 /\ sendOk = 1 /\ task = "stopped"

\* ---- C8
\* After read_secret(p) or list_secrets(p): a 404 answer gives NotFound with
\* the client's namespace and the path p; every other error answer gives a
\* TransportError; and at a path without a live secret (for list: without
\* any version) an answer that is not a fault gives that NotFound.
C8_MissingPathIsNotFound ==
    last.op \in {"read", "list"} =>
        /\ (last.resp.kind = "api" /\ last.resp.code = 404)
              => last.result = NotFound(namespace, last.path)
        /\ (last.resp.kind = "api" /\ last.resp.code # 404)
              => last.result = TransportError
        /\ last.resp.kind = "other" => last.result = TransportError
        /\ (last.resp \notin Faults /\ last.op = "read"
              /\ store[last.path].state # "live")
              => last.result = NotFound(namespace, last.path)
        /\ (last.resp \notin Faults /\ last.op = "list"
              /\ store[last.path].state = "absent")
              => last.result = NotFound(namespace, last.path)

\* C8 witness: a list of a path that was never written returned NotFound
\* while the other path holds a secret.
C8_Witness ==
    /\ last.op = "list"
    /\ last.result = NotFound("secret", "app/key")
    /\ store["db/creds"].state = "live"

\* ---- C9 (as claimed; refuted under SpecRenewal)
\* A read_secret(p) that follows a successful write_secret(p, v), with no
\* write or delete of p in between, returns Ok with the value v.
C9_ReadReturnsWritten ==
    (last.op = "read" /\ written[last.path] # None)
        => last.result = Ok(written[last.path])

\* ---- C9 (amended)
\* Such a read returns Ok with the value v unless its own transport call
\* fails, and then it returns a TransportError: never NotFound, never
\* another value.
C9_ReadReturnsWrittenOrOwnError ==
    (last.op = "read" /\ written[last.path] # None)
        => IF last.resp \in Faults THEN last.result = TransportError
           ELSE last.result = Ok(written[last.path])

\* C9 witness: the task has stopped after failing, and a read returned the
\* value written last.
C9_Witness ==
    /\ last.op = "read"
    /\ last.result = Ok("v2")
    /\ written["db/creds"] = "v2"
    /\ task = "stopped"

\* ---- C10 (as claimed; refuted under Spec)
\* delete_latest(p) returns Ok only if a live version existed at p, and a
\* delete_latest(p) right after a successful delete_latest(p) does not
\* return Ok.
C10_SecondDeleteFails ==
    [][ \A p \in Paths :
          (delete_latest(p) /\ last'.result.kind = "Ok") =>
              /\ store[p].state = "live"
              /\ ~(last.op = "delete" /\ last.path = p /\ last.result.kind = "Ok")
      ]_vars

\* ---- C11 (as claimed; refuted under Spec)
\* A read_secret(p) at a path whose latest version was written and then
\* deleted by a successful delete_latest(p), with no write since, returns
\* NotFound with the client's namespace and the path p.
C11_ReadAfterDeleteIsNotFound ==
    (last.op = "read" /\ store[last.path].state = "deleted")
        => last.result = NotFound(namespace, last.path)

\* ---- C11 (amended)
\* Such a read returns that NotFound unless its own transport call fails,
\* and then it returns a TransportError: never Ok.
C11_ReadAfterDeleteIsNotFoundOrOwnError ==
    (last.op = "read" /\ store[last.path].state = "deleted")
        => IF last.resp \in Faults THEN last.result = TransportError
           ELSE last.result = NotFound(namespace, last.path)

\* C11 witness: the scenario of the specification, namespace "secret" and
\* path "db/creds": written, deleted, then read as NotFound.
C11_Witness ==
    /\ last.op = "read"
    /\ store["db/creds"].state = "deleted"
    /\ last.result = NotFound("secret", "db/creds")

\* ---- C12
\* The result of a secret operation is an error exactly when its own
\* transport call was answered by an error, whatever the renewal task is
\* doing; and a step of the renewal task (a poll, an answer to its renew or
\* lookup, failed or not) changes the result of no secret operation.
C12_OwnErrorsOnly ==
    [][ /\ last'.op # None =>
              (last'.resp.kind # "ok" <=> last'.result.kind # "Ok")
        /\ <<task, pc, resp, renewCalls>>' # <<task, pc, resp, renewCalls>>
              => last' = last ]_vars

\* C12 witness: a delete_latest returned Ok while a failed renewal attempt
\* was waiting to be consumed by the task.
C12_Witness ==
    /\ last.op = "delete"
    /\ last.result.kind = "Ok"
    /\ task = "running" /\ pc = "renew" /\ resp = "err"

\* ---- C13
\* The step of Client::new starts no renew, lookup or KV request and changes
\* nothing on the service; when it returns an error no handle exists and no
\* renewal task was spawned, and none exists afterwards.
C13_ConstructionDoesNoIO ==
    [][ /\ (created = "no" /\ created' # "no") =>
              /\ renewCalls' = renewCalls
              /\ pc' \notin {"renew", "lookup"}
              /\ <<store, written, last>>' = <<store, written, last>>
        /\ created' = "err" =>
              (task' = "none" /\ reciever' = "none" /\ live' = 0 /\ handles' = 0) ]_vars

\* C13 witness: Client::new has returned an error.
C13_Witness ==
    created = "err" /\ task = "none"

\* ---- C14
\* One Client::new spawns at most one renewal task, and only when it returns
\* Ok with its future driven; a clone or a drop spawns none, and a clone
\* leaves the one channel as it is (same sender, same receiver owner).
C14_SingleRenewalLoop ==
    [][ /\ spawned' <= 1
        /\ (task' # "none") <=> (spawned' = 1)
        /\ handles' > handles /\ handles > 0 =>
              (spawned' = spawned /\ task' = task /\ <<signal, reciever>>' = <<signal, reciever>>)
        /\ live' < live => spawned' = spawned ]_vars

\* C14 witness: three handles of one lineage exist, one was dropped and a
\* clone was made after the task stopped; one task was spawned in all.
C14_Witness ==
    handles = 3 /\ live = 2 /\ spawned = 1 /\ task = "stopped"

\* ---- C15
\* The task starts a lookup only when its renew was answered with success,
\* never after a failed renew; it starts a request only when the request
\* before it was answered; a granted renewal carries the configured
\* increment; and no step taken while the lookup is pending or failed
\* changes the token the renew has extended.
C15_TickAlgorithm ==
    [][ /\ (pc' = "lookup" /\ pc # "lookup") => (pc = "renew" /\ resp = "ok")
        /\ (pc = "renew" /\ resp = "err") => pc' # "lookup"
        /\ (renewCalls' # renewCalls \/ (pc' = "lookup" /\ pc # "lookup"))
              => ~(pc \in {"renew", "lookup"} /\ resp = "none")
        /\ token' # token => (pc = "renew" /\ token' = token_increment_ttl)
        /\ pc = "lookup" => token' = token ]_vars

\* C15 witness: the lookup that followed a granted renew has failed and the
\* token is still extended by the configured increment.
C15_Witness ==
    task = "running" /\ pc = "lookup" /\ resp = "err" /\ token = "1h"

\* ---- C16 (as claimed; refuted under SpecRenewal)
\* When the task starts a renewal attempt right after a call of the tick
\* before it has returned, the tick after that attempt is not due yet: the
\* task has to wait before the attempt that follows, it does not start
\* attempts back to back to make up for the time a slow call has taken.
C16_NoCatchUpBurst ==
    [][ (task = "running" /\ pc \in {"renew", "lookup"}
           /\ renewCalls' = renewCalls + 1)
          => next_interval' > now' ]_vars

\* ---- C17
\* Whatever the renewal task is doing (waiting, with a call in flight, with a
\* failed call, stopped) every secret operation can be made and completed by
\* a live handle; a step of the task or of the service's answer to it leaves
\* the stored secrets and the results of the operations unchanged; and a
\* secret operation leaves the task, its interval and increment, the token
\* and the channel unchanged.
C17_Independence ==
    /\ [](live > 0 =>
              \A p \in RenewalPaths :
                 /\ ENABLED read_secret(p)
                 /\ ENABLED list_secrets(p)
                 /\ ENABLED delete_latest(p)
                 /\ \A v \in Values : ENABLED write_secret(p, v))
    /\ [][
        /\ <<task, pc, resp, next_interval, renewCalls, token>>'
              # <<task, pc, resp, next_interval, renewCalls, token>>
              => <<store, written, last>>' = <<store, written, last>>
        /\ <<store, written, last>>' # <<store, written, last>>
              => /\ <<spawned, task, pc, resp, next_interval, renewCalls, token>>'
                      = <<spawned, task, pc, resp, next_interval, renewCalls, token>>
                 /\ <<token_refresh_interval, token_increment_ttl>>'
                      = <<token_refresh_interval, token_increment_ttl>>
                 /\ <<signal, sendOk, reciever>>' = <<signal, sendOk, reciever>> ]_vars

\* C17 witness: a write has stored a secret and returned while the renew
\* request of the task's first attempt is still unanswered.
C17_Witness ==
    /\ task = "running" /\ pc = "renew" /\ resp = "none" /\ renewCalls = 1
    /\ last.op = "write" /\ last.result.kind = "Ok"
    /\ store["db/creds"].state = "live"

\* ---- C18
\* Every call of read_secret, write_secret, delete_latest or list_secrets
\* that has been made sent exactly one request to the transport, whether the
\* request was answered with success or with a failure.
C18_OneRoundTrip ==
    last.op \in {"read", "write", "delete", "list"} => last.requests = 1

\* C18 witness: a write whose request failed has returned its error after
\* one request.
C18_Witness ==
    /\ last.op = "write"
    /\ last.resp.kind # "ok"
    /\ last.result.kind = "Transport"
    /\ last.requests = 1

\* The answer of the service itself to a read of path p.
StoredAnswer(p) ==
    IF store[p].state = "live" THEN RespOk(store[p].json) ELSE RespApi(NOT_FOUND)

\* ---- C19
\* While a handle is alive after another handle of the client was dropped,
\* each secret operation can still be made and gets the answer of the
\* service: a read gets what is stored, a write stores its value, a delete
\* and a list are answered by the service; and the drop of a handle leaves
\* the stored secrets and the results of the operations as they were.
C19_SurvivorsUsable ==
    /\ []((live > 0 /\ live < handles) =>
              \A p \in Paths :
                 /\ ENABLED (read_secret(p) /\ last'.resp = StoredAnswer(p)
                               /\ last'.result = ReadResult(StoredAnswer(p), p))
                 /\ \A v \in Values :
                       ENABLED (write_secret(p, v) /\ last'.result.kind = "Ok"
                                  /\ store'[p] = Live(Serialize(v)))
                 /\ ENABLED (delete_latest(p) /\ last'.resp.kind = "ok"
                               /\ store'[p].state # "live")
                 /\ ENABLED (list_secrets(p) /\ last'.resp.kind # "other"
                               /\ last'.resp \notin Faults))
    /\ [][ live' < live => <<store, written, last>>' = <<store, written, last>> ]_vars

\* C19 witness: after a handle was dropped, a read on a surviving handle has
\* returned the value a write had stored.
C19_Witness ==
    /\ live > 0 /\ live < handles
    /\ last.op = "read" /\ last.result.kind = "Ok"
    /\ last.result.value = written[last.path]

\* ---- C20
\* While a renew call of the task is unanswered and the receiver is ready,
\* the task can stop at once, and the only step the task takes is the one
\* that stops it: it starts no lookup and no renew, and the call is dropped
\* unanswered.  A stopped task that dropped a call never takes up a call
\* again.
C20_CancelAbandonsTick ==
    [][ /\ (task = "running" /\ RecvReady /\ pc = "renew" /\ resp = "none") =>
              /\ ENABLED (Poll /\ task' = "stopped")
              /\ <<task, pc, reciever, renewCalls>>' # <<task, pc, reciever, renewCalls>>
                    => /\ task' = "stopped"
                       /\ pc' = None
                       /\ resp' = "dropped"
                       /\ renewCalls' = renewCalls
                       /\ token' = token
        /\ (task = "stopped" /\ resp = "dropped") =>
              /\ <<task, pc, resp>>' = <<task, pc, resp>>
              /\ renewCalls' = renewCalls
              /\ token' = token ]_vars

\* C20 witness: the task was stopped while its first renew call was
\* unanswered, by a handle dropped while another handle is alive.
C20_Witness ==
    /\ task = "stopped" /\ resp = "dropped" /\ renewCalls = 1 /\ token = None
    /\ live > 0 /\ signal

====
